---- MODULE Spec2Model ----
(***************************************************************************)
(* Model of modbus_bridge.py: the Modbus RTU frame decoder, the register   *)
(* mapper with its float32 reconstruction, and the MQTT on_message         *)
(* callback that chains them and publishes the result.                     *)
(*                                                                         *)
(* Python values are modelled as follows.  bytes and list are sequences    *)
(* (1-based here, 0-based in the source), dict is a function whose DOMAIN  *)
(* is the set of keys, None is the string NoneVal, a raised exception is a *)
(* record with status "raised" and the exception's type in error.          *)
(***************************************************************************)
EXTENDS Integers, Sequences, FiniteSets, TLC

VARIABLES
    payload,      \* decode_modbus_rtu_frame: its argument
    frame,        \* decode_modbus_rtu_frame: what the call returned or raised
    unit_id,      \* map_registers: its arguments
    function,
    registers,
    result,       \* map_registers: what the call returned or raised
    reg_hi,       \* regs_to_float32: its arguments
    reg_lo,
    word_order,
    fval,         \* regs_to_float32: the float returned
    UNITS_CFG,    \* module globals read from config.json
    FRAME_TYPE,
    calls,        \* on_message: one record per call made by the client loop
    published     \* client.publish: the messages handed to the broker

vars == <<payload, frame, unit_id, function, registers, result, reg_hi, reg_lo,
          word_order, fval, UNITS_CFG, FRAME_TYPE, calls, published>>

NoneVal == "<None>"

Min(a, b) == IF a <= b THEN a ELSE b

\* All sequences over S of length at most n.
SeqsUpTo(S, n) == UNION {[1..k -> S] : k \in 0..n}

(***************************************************************************)
(* Bounds of the model.                                                    *)
(***************************************************************************)
MaxByteCount == 4     \* largest declared byte count in a payload
MaxRegs == 2          \* longest register list handed to map_registers
MaxDefs == 2          \* longest registers_by_index list of the configuration
MaxMsgs == 3          \* messages delivered to on_message in one run

(***************************************************************************)
(* Python helpers.                                                         *)
(***************************************************************************)
\* s[lo:hi] for 0 <= lo <= hi: the slice is cut at the end of s, never an error.
PySlice(s, lo, hi) == SubSeq(s, lo + 1, Min(hi, Len(s)))

\* Whether s[i] raises IndexError: Python accepts -len(s) <= i < len(s).
PyIndexError(s, i) == i >= Len(s) \/ i < 0 - Len(s)

\* s[i] with Python's negative indices counting from the end.
PyIndex(s, i) == IF i >= 0 THEN s[i + 1] ELSE s[Len(s) + i + 1]

\* d.get(k, default)
PyGet(d, k, default) == IF k \in DOMAIN d THEN d[k] ELSE default

\* str(n) of an unsigned integer
PyStr(n) == ToString(n)

\* The empty dict.  A lookup d.get(k) whose result is only tested for truth
\* and then used as a dict is modelled as d.get(k, {}): None and {} are both
\* falsy.
NoDict == <<>>

\* not v, for v a dict
Falsy(v) == DOMAIN v = {}

(***************************************************************************)
(* decode_modbus_rtu_frame                                                 *)
(***************************************************************************)
Raised(err) ==
    [status |-> "raised", error |-> err, unit_id |-> 0, function |-> 0,
     registers |-> <<>>, crc_ok |-> FALSE, warned |-> FALSE]

\* (data[i] << 8) | data[i + 1] on two bytes, little-endian by mistake
Reg16Swapped(hi, lo) == lo * 256 + hi

\* (data[i] << 8) | data[i + 1] on two bytes: the low 8 bits of the shifted
\* value are zero, so the bitwise or adds.
Reg16(hi, lo) == hi * 256 + lo

\* The loop of lines 88-91 over a data slice of even length.
RECURSIVE DecodeRegs(_)
DecodeRegs(data) ==
    IF Len(data) = 0 THEN <<>>
    ELSE <<Reg16(data[1], data[2])>> \o DecodeRegs(SubSeq(data, 3, Len(data)))

decode_modbus_rtu_frame(p) ==
    IF Len(p) < 5 THEN Raised("FrameTooShort")
    ELSE LET byte_count == p[3]
             expected_len == 3 + byte_count + 2
             data == PySlice(p, 3, 3 + byte_count)
         IN  IF Len(data) % 2 # 0
             THEN [Raised("OddByteCount") EXCEPT !.warned = (Len(p) # expected_len)]
             ELSE [status |-> "ok", error |-> NoneVal, unit_id |-> p[1],
                   function |-> p[2], registers |-> DecodeRegs(data),
                   crc_ok |-> TRUE, warned |-> (Len(p) # expected_len)]

NoFrame == [Raised(NoneVal) EXCEPT !.status = "none"]

(***************************************************************************)
(* Inputs of the decoder: a three-byte header followed by any tail, and    *)
(* the payloads too short to hold a header.                                *)
(***************************************************************************)
UnitIds == {1, 17}
FunctionCodes == {3, 4}
DataBytes == {0, 1, 255}

Payloads ==
    {<<u, f, n>> \o t : u \in UnitIds, f \in FunctionCodes, n \in 0..MaxByteCount,
                        t \in SeqsUpTo(DataBytes, MaxByteCount + 2)}
    \cup {<<>>, <<1>>, <<1, 3>>}

NoResult == [status |-> "none", error |-> NoneVal, mapped |-> <<>>, device_name |-> NoneVal]

NoFloat == [f32 |-> <<>>]

IdleDecode == payload = <<>> /\ frame = NoFrame
IdleMap == unit_id = 0 /\ function = 0 /\ registers = <<>> /\ result = NoResult
IdleFloat == reg_hi = 0 /\ reg_lo = 0 /\ word_order = "ABCD" /\ fval = NoFloat
IdleBridge == FRAME_TYPE = "rtu" /\ calls = <<>> /\ published = <<>>

InitDecode ==
    /\ payload \in Payloads
    /\ frame = NoFrame
    /\ IdleMap /\ IdleFloat /\ IdleBridge
    /\ UNITS_CFG = <<>>

\* One call of decode_modbus_rtu_frame on the payload.
Decode ==
    /\ frame.status = "none"
    /\ frame' = decode_modbus_rtu_frame(payload)
    /\ UNCHANGED <<payload, unit_id, function, registers, result, reg_hi, reg_lo,
                   word_order, fval, UNITS_CFG, FRAME_TYPE, calls, published>>

NextDecode == Decode

SpecDecode == InitDecode /\ [][NextDecode]_vars

(***************************************************************************)
(* Claims about decode_modbus_rtu_frame, stated for SpecDecode.            *)
(***************************************************************************)
Decoded == frame.status # "none"

\* C1: every payload of length >= 5 whose declared byte count (byte 2) is odd
\* is rejected with the odd-byte-count error, whatever its actual length.
C1_OddByteCountAlwaysRejected ==
    (Decoded /\ Len(payload) >= 5 /\ payload[3] % 2 = 1)
        => (frame.status = "raised" /\ frame.error = "OddByteCount")

\* C2: whenever a frame is returned, the number of its registers is the
\* declared byte count divided by two.
C2_RegisterCountIsHalfByteCount ==
    frame.status = "ok" => 2 * Len(frame.registers) = payload[3]

\* C3: a length mismatch is never fatal: with an even declared byte count N and
\* a length other than 3+N+2 (shorter or longer) the call does not raise and
\* returns a frame.
C3_LengthMismatchNeverFatal ==
    (Decoded /\ Len(payload) >= 5 /\ payload[3] % 2 = 0
             /\ Len(payload) # 3 + payload[3] + 2)
        => frame.status = "ok"

\* The big-endian register bytes of a sequence of uint16 values.
RECURSIVE PackRegs(_)
PackRegs(vals) ==
    IF Len(vals) = 0 THEN <<>>
    ELSE <<vals[1] \div 256, vals[1] % 256>> \o PackRegs(Tail(vals))

Uint16Samples == {h * 256 + l : h, l \in DataBytes}

\* payload is [unit, function, 2k, vals packed big-endian, 2 CRC bytes]
IsPackedFrame(p, vals) ==
    /\ Len(p) = 3 + 2 * Len(vals) + 2
    /\ p[3] = 2 * Len(vals)
    /\ SubSeq(p, 4, 3 + 2 * Len(vals)) = PackRegs(vals)

\* C4: round trip: a payload packed from k uint16 values decodes to exactly
\* those values in order, with unit_id and function equal to bytes 0 and 1,
\* whatever the two CRC bytes are.
C4_RoundTrip ==
    Decoded =>
        \A vals \in SeqsUpTo(Uint16Samples, MaxByteCount \div 2) :
            IsPackedFrame(payload, vals)
                => /\ frame.status = "ok"
                   /\ frame.registers = vals
                   /\ frame.unit_id = payload[1]
                   /\ frame.function = payload[2]

C4_Witness ==
    /\ frame.status = "ok"
    /\ IsPackedFrame(payload, <<511, 65280>>)
    /\ payload[8] # payload[9]
    /\ frame.registers = <<511, 65280>>

(***************************************************************************)
(* regs_to_float32                                                         *)
(***************************************************************************)
\* The orders table with the CDAB entry swapping bytes instead of words.
ordersNoWordSwap(a, b, c, d) ==
    [o \in {"ABCD", "DCBA", "BADC", "CDAB"} |->
        CASE o = "ABCD" -> <<a, b, c, d>>
          [] o = "DCBA" -> <<d, c, b, a>>
          [] o = "BADC" -> <<b, a, d, c>>
          [] o = "CDAB" -> <<b, a, d, c>>]

\* The dict of lines 169-174.
orders(a, b, c, d) ==
    [o \in {"ABCD", "DCBA", "BADC", "CDAB"} |->
        CASE o = "ABCD" -> <<a, b, c, d>>
          [] o = "DCBA" -> <<d, c, b, a>>
          [] o = "BADC" -> <<b, a, d, c>>
          [] o = "CDAB" -> <<c, d, a, b>>]

\* struct.unpack(">f", data)[0]: a float32 is identified by the four bytes of
\* its big-endian bit pattern, most significant first.
Unpack_f(data) == [f32 |-> data]

regs_to_float32(hi, lo, wo) ==
    LET a == (hi \div 256) % 256
        b == hi % 256
        c == (lo \div 256) % 256
        d == lo % 256
        tbl == orders(a, b, c, d)
        data == PyGet(tbl, wo, tbl["ABCD"])
    IN  Unpack_f(data)


Words == {0, 1, 16256, 32831, 4660, 65535}
WordOrders == {"ABCD", "DCBA", "BADC", "CDAB", "abcd", ""}

InitFloat ==
    /\ reg_hi \in Words
    /\ reg_lo \in Words
    /\ word_order \in WordOrders
    /\ fval = NoFloat
    /\ IdleDecode /\ IdleMap /\ IdleBridge
    /\ UNITS_CFG = <<>>

\* One call of regs_to_float32 on the two words.
ToFloat ==
    /\ fval = NoFloat
    /\ fval' = regs_to_float32(reg_hi, reg_lo, word_order)
    /\ UNCHANGED <<payload, frame, unit_id, function, registers, result, reg_hi,
                   reg_lo, word_order, UNITS_CFG, FRAME_TYPE, calls, published>>

NextFloat == ToFloat

SpecFloat == InitFloat /\ [][NextFloat]_vars

\* Bytes m (most significant) and l (least significant) make up the word w.
IsWord(w, m, l) == m \in 0..255 /\ l \in 0..255 /\ w = m * 256 + l

\* C8: with a,b the bytes of the high word and c,d those of the low word, the
\* four bytes interpreted as a big-endian float are a,b,c,d for ABCD, d,c,b,a
\* for DCBA, b,a,d,c for BADC, c,d,a,b for CDAB, and a,b,c,d for any other
\* word_order.
C8_WordOrderBytes ==
    fval # NoFloat =>
        LET B == fval.f32 IN
        /\ Len(B) = 4
        /\ CASE word_order = "DCBA" ->
                    IsWord(reg_hi, B[4], B[3]) /\ IsWord(reg_lo, B[2], B[1])
             [] word_order = "BADC" ->
                    IsWord(reg_hi, B[2], B[1]) /\ IsWord(reg_lo, B[4], B[3])
             [] word_order = "CDAB" ->
                    IsWord(reg_hi, B[3], B[4]) /\ IsWord(reg_lo, B[1], B[2])
             [] OTHER ->
                    IsWord(reg_hi, B[1], B[2]) /\ IsWord(reg_lo, B[3], B[4])

\* to_float32(0x0000, 0x3F80, "CDAB") is 1.0, bit pattern 3F 80 00 00.
C8_Witness ==
    /\ word_order = "CDAB" /\ reg_hi = 0 /\ reg_lo = 16256
    /\ fval = [f32 |-> <<63, 128, 0, 0>>]

(***************************************************************************)
(* map_registers                                                           *)
(***************************************************************************)
\* A return of map_registers: the pair (mapped, device name).
Returned(mapped, name) ==
    [status |-> "ok", error |-> NoneVal, mapped |-> mapped, device_name |-> name]

\* An exception leaving map_registers.
MapRaised(err) ==
    [status |-> "raised", error |-> err, mapped |-> <<>>, device_name |-> NoneVal]

\* raw_val * scale: an integer register times the scale
MulInt(raw_val, scale) == [num |-> raw_val * scale]

\* fval * scale: the product is kept as its two factors
MulFloat(f, scale) == [f32 |-> f.f32, times |-> scale]

\* mapped.setdefault(name, value): an earlier entry is kept
DictSetDefault(d, k, v) ==
    [n \in DOMAIN d \cup {k} |-> IF n \in DOMAIN d THEN d[n] ELSE v]

\* mapped[name] = value
DictSet(d, k, v) ==
    [n \in DOMAIN d \cup {k} |-> IF n = k THEN v ELSE d[n]]

\* The return of line 112 with the device name dropped.
FunctionMissNoName(unit_cfg) == Returned(<<>>, NoneVal)

\* The return of line 112: no mapping, the unit's name.
FunctionMiss(unit_cfg) == Returned(<<>>, PyGet(unit_cfg, "name", NoneVal))

\* The loop of lines 117-146 over the definitions left, with the mapping
\* built so far; its result is the mapping or the exception that ended it.
RECURSIVE MapLoop(_, _, _)
MapLoop(reg_defs, regs, mapped) ==
    IF Len(reg_defs) = 0 THEN [status |-> "ok", error |-> NoneVal, mapped |-> mapped]
    ELSE
    LET reg_def == Head(reg_defs)
        continue == MapLoop(Tail(reg_defs), regs, mapped)
    IN
    IF "index" \notin DOMAIN reg_def
    THEN [status |-> "raised", error |-> "KeyError", mapped |-> <<>>]
    ELSE
    LET idx == reg_def["index"] IN
    IF idx >= Len(regs) THEN continue
    ELSE IF PyIndexError(regs, idx)
    THEN [status |-> "raised", error |-> "IndexError", mapped |-> <<>>]
    ELSE IF "name" \notin DOMAIN reg_def
    THEN [status |-> "raised", error |-> "KeyError", mapped |-> <<>>]
    ELSE
    LET raw_val == PyIndex(regs, idx)
        scale == PyGet(reg_def, "scale", 1)
        name == reg_def["name"]
        datatype == PyGet(reg_def, "datatype", "uint16")
        wo == PyGet(reg_def, "word_order", "ABCD")
    IN
    IF datatype = "uint16"
    THEN MapLoop(Tail(reg_defs), regs, DictSet(mapped, name, MulInt(raw_val, scale)))
    ELSE IF datatype = "float32"
    THEN IF idx + 1 >= Len(regs) THEN continue
         ELSE MapLoop(Tail(reg_defs), regs,
                      DictSet(mapped, name,
                              MulFloat(regs_to_float32(PyIndex(regs, idx),
                                                       PyIndex(regs, idx + 1), wo),
                                       scale)))
    ELSE MapLoop(Tail(reg_defs), regs, DictSet(mapped, name, MulInt(raw_val, scale)))

map_registers(u, f, regs) ==
    LET unit_cfg == PyGet(UNITS_CFG, PyStr(u), NoDict) IN
    IF Falsy(unit_cfg) THEN Returned(<<>>, NoneVal)
    ELSE
    LET func_cfg == PyGet(PyGet(unit_cfg, "functions", NoDict), PyStr(f), NoDict) IN
    IF Falsy(func_cfg) THEN FunctionMiss(unit_cfg)
    ELSE
    LET reg_defs == PyGet(func_cfg, "registers_by_index", <<>>)
        loop == MapLoop(reg_defs, regs, <<>>)
    IN  IF loop.status = "raised" THEN MapRaised(loop.error)
        ELSE Returned(loop.mapped, PyGet(unit_cfg, "name", NoneVal))

(***************************************************************************)
(* Inputs of the mapper.  The configuration is whatever config.json holds: *)
(* nothing validates it, so definitions with a missing field or a negative *)
(* index are configurations the program can run with.                      *)
(***************************************************************************)
RegSamples == {250, 16256}

DefSamples ==
    { [index |-> 0, name |-> "temp"],
      [index |-> 1, name |-> "temp", scale |-> 10],
      [index |-> 0, name |-> "flow", datatype |-> "float32", word_order |-> "CDAB"],
      [index |-> 1, name |-> "flow", datatype |-> "float32"],
      [index |-> 0, name |-> "raw", datatype |-> "int32", scale |-> 10],
      [index |-> 5, name |-> "far"],
      [index |-> -1, name |-> "last"],
      [index |-> 0],
      [index |-> 5],
      [name |-> "temp"] }

\* Unit 1 is named and maps function 3; unit 2 has no name and an empty
\* entry for function 3; unit 4 is an empty entry; unit 3 is not configured.
ConfigWith(reg_defs) ==
    ("1" :> [name |-> "boiler",
             functions |-> ("3" :> [registers_by_index |-> reg_defs])])
    @@ ("2" :> [functions |-> ("3" :> <<>>)])
    @@ ("4" :> <<>>)

Configs == {ConfigWith(reg_defs) : reg_defs \in SeqsUpTo(DefSamples, MaxDefs)}

InitMap ==
    /\ unit_id \in 1..4
    /\ function \in FunctionCodes
    /\ registers \in SeqsUpTo(RegSamples, MaxRegs)
    /\ UNITS_CFG \in Configs
    /\ result = NoResult
    /\ IdleDecode /\ IdleFloat /\ IdleBridge

\* One call of map_registers on the frame fields.
Map ==
    /\ result.status = "none"
    /\ result' = map_registers(unit_id, function, registers)
    /\ UNCHANGED <<payload, frame, unit_id, function, registers, reg_hi, reg_lo,
                   word_order, fval, UNITS_CFG, FRAME_TYPE, calls, published>>

NextMap == Map

SpecMap == InitMap /\ [][NextMap]_vars

(***************************************************************************)
(* Claims about map_registers, stated for SpecMap.                         *)
(***************************************************************************)
Mapped == result.status # "none"

UnitConfigured == PyStr(unit_id) \in DOMAIN UNITS_CFG

\* The unit is configured and its function table has an entry for the function.
FunctionConfigured ==
    /\ UnitConfigured
    /\ "functions" \in DOMAIN UNITS_CFG[PyStr(unit_id)]
    /\ PyStr(function) \in DOMAIN UNITS_CFG[PyStr(unit_id)]["functions"]

\* The call reaches a list of register definitions.
HasDefs ==
    /\ FunctionConfigured
    /\ "registers_by_index" \in
           DOMAIN UNITS_CFG[PyStr(unit_id)]["functions"][PyStr(function)]

Defs == UNITS_CFG[PyStr(unit_id)]["functions"][PyStr(function)]["registers_by_index"]

IsFloat32(d) == "datatype" \in DOMAIN d /\ d["datatype"] = "float32"

WellFormed(d) == "index" \in DOMAIN d /\ "name" \in DOMAIN d

\* The index (or index+1 for float32) is no zero-based offset into registers.
OutOfRange(d) ==
    \/ d["index"] < 0
    \/ d["index"] >= Len(registers)
    \/ IsFloat32(d) /\ d["index"] + 1 >= Len(registers)

\* C5: an out-of-range index never raises: a definition whose index (or
\* index+1 for float32) is no valid zero-based offset into the register list
\* contributes no entry and no error, and every in-range definition of the
\* same list still yields its entry.
C5_OutOfRangeSkipped ==
    (Mapped /\ HasDefs /\ \A j \in 1..Len(Defs) : WellFormed(Defs[j]))
        => /\ result.status = "ok"
           /\ DOMAIN result.mapped =
                  {Defs[j]["name"] : j \in {i \in 1..Len(Defs) : ~OutOfRange(Defs[i])}}

\* C6: a function list holding a definition without its name or its index
\* makes the call raise, for every register list.
C6_MalformedDefinitionRaises ==
    (Mapped /\ HasDefs /\ \E j \in 1..Len(Defs) : ~WellFormed(Defs[j]))
        => result.status = "raised"

\* The definition is passed over by one of the two continue statements.
Skipped(d) ==
    \/ d["index"] >= Len(registers)
    \/ IsFloat32(d) /\ d["index"] + 1 >= Len(registers)

\* The value lines 128-144 compute from one definition.
DefValue(d) ==
    IF IsFloat32(d)
    THEN MulFloat(regs_to_float32(PyIndex(registers, d["index"]),
                                  PyIndex(registers, d["index"] + 1),
                                  PyGet(d, "word_order", "ABCD")),
                  PyGet(d, "scale", 1))
    ELSE MulInt(PyIndex(registers, d["index"]), PyGet(d, "scale", 1))

\* The positions of the definitions named n that were not skipped.
Stored(n) == {j \in 1..Len(Defs) : ~Skipped(Defs[j]) /\ Defs[j]["name"] = n}

Last(J) == CHOOSE j \in J : \A i \in J : i <= j

DefNames == {d["name"] : d \in {x \in DefSamples : "name" \in DOMAIN x}}

\* C7: last-wins: the value returned under a name is the one computed from the
\* last definition in list order that carries the name and was not skipped.
C7_LastWins ==
    (result.status = "ok" /\ HasDefs)
        => /\ DOMAIN result.mapped \subseteq DefNames
           /\ \A n \in DefNames :
                 IF Stored(n) = {} THEN n \notin DOMAIN result.mapped
                 ELSE /\ n \in DOMAIN result.mapped
                      /\ result.mapped[n] = DefValue(Defs[Last(Stored(n))])

C7_Witness ==
    /\ result.status = "ok" /\ HasDefs
    /\ Len(Defs) = 2
    /\ Stored("temp") = {1, 2}
    /\ DefValue(Defs[1]) # DefValue(Defs[2])
    /\ result.mapped["temp"] = DefValue(Defs[2])

\* C9: a configuration miss is no error: an unconfigured unit gives an empty
\* mapping and no device name; a configured unit without an entry for the
\* function gives an empty mapping and the unit's configured name.
C9_ConfigMissNotError ==
    Mapped =>
        /\ ~UnitConfigured => result = Returned(<<>>, NoneVal)
        /\ (UnitConfigured /\ ~FunctionConfigured)
              => result = Returned(<<>>,
                                   IF "name" \in DOMAIN UNITS_CFG[PyStr(unit_id)]
                                   THEN UNITS_CFG[PyStr(unit_id)]["name"]
                                   ELSE NoneVal)

C9_Witness ==
    /\ Mapped
    /\ UnitConfigured /\ ~FunctionConfigured
    /\ Len(registers) > 0
    /\ result.mapped = <<>>
    /\ result.device_name = "boiler"

(***************************************************************************)
(* on_message: the callback the MQTT client loop runs for each inbound     *)
(* message.  A topic is the sequence of its levels (topic.split("/")).     *)
(* The timestamp of the output is the wall clock and is left out; the      *)
(* output topic is the template with its one substitution, and the JSON    *)
(* text is the object it serialises.                                       *)
(***************************************************************************)
DEVICE_ID_TOPIC_INDEX == 1

extract_device_id_from_topic(parts) ==
    IF Len(parts) > DEVICE_ID_TOPIC_INDEX
    THEN PyIndex(parts, DEVICE_ID_TOPIC_INDEX)
    ELSE NoneVal

\* device_name or f"unit_{unit_id}": None and "" are falsy
DeviceLabel(device_name, u) ==
    IF device_name = NoneVal \/ device_name = "" THEN "unit_" \o PyStr(u)
    ELSE device_name

\* Lines 224-236: the output object, with its two optional keys.
OutObj(fr, mapped, device_name, device_id) ==
    [unit_id |-> fr.unit_id, function |-> fr.function,
     device |-> DeviceLabel(device_name, fr.unit_id),
     raw_registers |-> fr.registers]
    @@ (IF device_id # NoneVal THEN [device_id |-> device_id] ELSE <<>>)
    @@ (IF DOMAIN mapped # {} THEN [values |-> mapped] ELSE <<>>)

\* Lines 242-246: TOPIC_OUT_TEMPLATE.format(device_id=...)
TopicOut(fr, device_id) ==
    [device_id |-> IF device_id # NoneVal THEN device_id
                   ELSE "unit_" \o PyStr(fr.unit_id)]

\* How one call ends: it returns after publishing, returns without publishing
\* (the decode error caught at line 210, or the frame type refused at line
\* 209), or is left by the exception map_registers raised at line 220.
Handle(msg) ==
    LET device_id == extract_device_id_from_topic(msg.topic) IN
    IF FRAME_TYPE # "rtu"
    THEN [outcome |-> "unsupported", error |-> NoneVal, pub |-> <<>>]
    ELSE
    LET fr == decode_modbus_rtu_frame(msg.payload) IN
    IF fr.status = "raised"
    THEN [outcome |-> "dropped", error |-> fr.error, pub |-> <<>>]
    ELSE
    LET r == map_registers(fr.unit_id, fr.function, fr.registers) IN
    IF r.status = "raised"
    THEN [outcome |-> "escaped", error |-> r.error, pub |-> <<>>]
    ELSE [outcome |-> "published", error |-> NoneVal,
          pub |-> [topic |-> TopicOut(fr, device_id),
                   payload |-> OutObj(fr, r.mapped, r.device_name, device_id)]]

Topics == {<<"protolink", "dev1", "modbus", "raw">>, <<"raw">>}

BridgePayloads ==
    { <<1, 3, 2, 0, 250, 0, 0>>,      \* unit 1, function 3, one register
      <<1, 3, 0, 0, 0>>,              \* unit 1, function 3, no register
      <<1, 4, 2, 0, 250, 0, 0>>,      \* a function the unit does not map
      <<3, 3, 2, 0, 250, 0, 0>>,      \* a unit that is not configured
      <<1, 3, 3, 0, 1, 2, 0, 0>>,     \* odd byte count
      <<1, 3, 0>> }                   \* too short

Messages == [topic : Topics, payload : BridgePayloads]

BridgeConfigs ==
    { ConfigWith(<<[index |-> 0, name |-> "temp", scale |-> 10]>>),
      ConfigWith(<<[index |-> 0, name |-> "temp"], [name |-> "flow"]>>),
      ConfigWith(<<[index |-> 0, name |-> "flow", datatype |-> "float32"]>>),
      ConfigWith(<<>>) }

Init ==
    /\ UNITS_CFG \in BridgeConfigs
    /\ FRAME_TYPE \in {"rtu", "tcp"}
    /\ calls = <<>>
    /\ published = <<>>
    /\ IdleDecode /\ IdleMap /\ IdleFloat

\* The client loop delivers one message and runs the callback to its end.
\* What the loop does with an exception that leaves the callback is the MQTT
\* library's; the model records the call and goes on delivering.
on_message(msg) ==
    /\ Len(calls) < MaxMsgs
    /\ LET h == Handle(msg) IN
       /\ calls' = Append(calls, [msg |-> msg, outcome |-> h.outcome,
                                  error |-> h.error])
       /\ published' = IF h.outcome = "published" THEN Append(published, h.pub)
                       ELSE published
    /\ UNCHANGED <<payload, frame, unit_id, function, registers, result, reg_hi,
                   reg_lo, word_order, fval, UNITS_CFG, FRAME_TYPE>>

Next == \E msg \in Messages : on_message(msg)

Spec == Init /\ [][Next]_vars

(***************************************************************************)
(* Claim about on_message, stated for Spec.                                *)
(***************************************************************************)
\* The message of call i decodes and maps without an error.
Clean(i) ==
    LET fr == decode_modbus_rtu_frame(calls[i].msg.payload) IN
    /\ fr.status = "ok"
    /\ map_registers(fr.unit_id, fr.function, fr.registers).status = "ok"

\* C10: per-message error isolation: every error decode_modbus_rtu_frame or
\* map_registers raises for a message is caught inside on_message, which
\* publishes nothing for it and returns normally, and every message without
\* an error is published exactly once.
C10_ErrorIsolation ==
    /\ \A i \in DOMAIN calls : calls[i].outcome # "escaped"
    /\ FRAME_TYPE = "rtu" =>
           /\ \A i \in DOMAIN calls : Clean(i) <=> calls[i].outcome = "published"
           /\ Len(published) = Cardinality({i \in DOMAIN calls : Clean(i)})

====
